---- MODULE Spec2Model ----
(***************************************************************************)
(* Model of the Whisper ASR server (src/docker/whisper-asr/server.py).     *)
(*                                                                         *)
(* The server is a FastAPI application whose handlers are coroutines       *)
(* ("async def") run by one event loop.  A coroutine gives the loop back   *)
(* only at an "await"; the only await of a handler is the read of the      *)
(* upload.  Everything else (get_model, the engine call, the except and    *)
(* finally clauses) runs on the loop without a suspension point.           *)
(***************************************************************************)
EXTENDS Integers, Sequences, FiniteSets, TLC

(***************************************************************************)
(* Bounds of the model.                                                    *)
(***************************************************************************)
NReq == 2            \* request slots that can be in flight together
MaxPaths == 3        \* names the scratch directory can hand out
MaxLoadFailures == 1 \* model loads that the environment lets fail
MaxLen == 2          \* longest text a backend returns
MaxSegs == 2         \* most segments the fast engine yields
MaxRuns == 3         \* runs of start_services.py
MaxCompose == 2      \* pieces of docker-compose.yml before the first run

Req == 1..NReq
Paths == 1..MaxPaths

(***************************************************************************)
(* Values.  Python's None is the string "None"; a key that a dict does not *)
(* carry is "<missing>".  A text is a sequence of characters.              *)
(***************************************************************************)
None == "None"
Missing == "<missing>"
Chars == {" ", "a"}
Whitespace == {" "}
Langs == {"en", "fr"}
Tasks == {"transcribe", "translate"}
Outputs == {"json", "txt"}
Engines == {"faster_whisper", "openai_whisper"}
Msgs == {"boom", "no audio"}

RECURSIVE SeqsUpTo(_, _)
SeqsUpTo(S, n) ==
    IF n = 0 THEN {<<>>}
    ELSE LET shorter == SeqsUpTo(S, n - 1)
         IN  shorter \cup {Append(s, x) : s \in {t \in shorter : Len(t) = n - 1}, x \in S}

Texts == SeqsUpTo(Chars, MaxLen)

(***************************************************************************)
(* str.strip(): drop the leading and the trailing whitespace.              *)
(***************************************************************************)
RECURSIVE lstrip(_)
lstrip(s) ==
    IF s # <<>> /\ Head(s) \in Whitespace THEN lstrip(Tail(s)) ELSE s

RECURSIVE rstrip(_)
rstrip(s) ==
    IF s # <<>> /\ s[Len(s)] \in Whitespace
    THEN rstrip(SubSeq(s, 1, Len(s) - 1)) ELSE s

strip(s) == rstrip(lstrip(s))

(***************************************************************************)
(* " ".join(list): the items in order, one space between neighbours.       *)
(***************************************************************************)
\* a join that puts nothing between the items
RECURSIVE join_nosep(_)
join_nosep(items) ==
    IF items = <<>> THEN <<>> ELSE items[1] \o join_nosep(Tail(items))

RECURSIVE join(_)
join(items) ==
    IF items = <<>> THEN <<>>
    ELSE IF Len(items) = 1 THEN items[1]
    ELSE items[1] \o <<" ">> \o join(Tail(items))

(***************************************************************************)
(* json.dumps of a str, as JSONResponse renders its content: the text      *)
(* between double quotes, a double quote or a backslash of the text        *)
(* escaped with a backslash.                                               *)
(***************************************************************************)
RECURSIVE json_escape(_)
json_escape(s) ==
    IF s = <<>> THEN <<>>
    ELSE (IF Head(s) \in {"\"", "\\"} THEN <<"\\", Head(s)>> ELSE <<Head(s)>>)
         \o json_escape(Tail(s))

json_dumps(s) == <<"\"">> \o json_escape(s) \o <<"\"">>

(***************************************************************************)
(* What an engine hands back from one inference call: it raised with a     *)
(* message, or it returned.  The fast engine returns segments and a        *)
(* metadata record (language, language_probability); the standard engine   *)
(* returns a dict with "text" and possibly "language" from transcribe, and *)
(* a dict of probabilities, in its iteration order, from detect_language.  *)
(***************************************************************************)
MaxProb == 2
Probs == 0..MaxProb
SegTexts == SeqsUpTo(Chars, 1)

NoOut ==
    [raised |-> FALSE, msg |-> None, text |-> <<>>, language |-> None,
     segments |-> <<>>, broke |-> FALSE, language_probability |-> 0,
     probs |-> <<>>]

Raises == {[NoOut EXCEPT !.raised = TRUE, !.msg = m] : m \in Msgs}

FastTranscribeOuts ==
    {[NoOut EXCEPT !.segments = sg, !.language = l, !.language_probability = MaxProb] :
        sg \in SeqsUpTo(SegTexts, MaxSegs), l \in Langs}

(***************************************************************************)
(* The fast engine's segments are produced on demand: the call can return  *)
(* and a later pull raise, after the segments listed had been yielded.     *)
(***************************************************************************)
BrokenTranscribeOuts ==
    {[NoOut EXCEPT !.raised = TRUE, !.broke = TRUE, !.msg = m, !.segments = sg] :
        sg \in SeqsUpTo(SegTexts, MaxSegs), m \in Msgs}

StandardTranscribeOuts ==
    {[NoOut EXCEPT !.text = t, !.language = l] :
        t \in Texts, l \in Langs \cup {None, Missing}}

FastDetectOuts ==
    {[NoOut EXCEPT !.segments = sg, !.language = l, !.language_probability = p] :
        sg \in SeqsUpTo(SegTexts, 1), l \in Langs, p \in Probs}

ProbDicts ==
    {<<<<l, p>>>> : l \in Langs, p \in Probs}
    \cup {d \in {<<<<l1, p1>>, <<l2, p2>>>> :
                    l1 \in Langs, l2 \in Langs, p1 \in Probs, p2 \in Probs} :
            d[1][1] # d[2][1]}

StandardDetectOuts == {[NoOut EXCEPT !.probs = d] : d \in ProbDicts}

(***************************************************************************)
(* One returned value of each shape, for the runs that vary the            *)
(* interleaving of requests instead of the data.                           *)
(***************************************************************************)
ExampleOuts ==
    {[NoOut EXCEPT !.segments = <<<<"a">>, <<"a">>>>, !.language = "en",
                   !.language_probability = MaxProb],
     [NoOut EXCEPT !.text = <<" ", "a">>, !.language = None],
     [NoOut EXCEPT !.language = "en", !.language_probability = MaxProb],
     [NoOut EXCEPT !.probs = <<<<"en", MaxProb>>, <<"fr", 0>>>>],
     [NoOut EXCEPT !.raised = TRUE, !.broke = TRUE, !.msg = "boom",
                   !.segments = <<<<"a">>>>]}

AllOuts(kind, engine) ==
    Raises \cup
    (IF kind = "asr"
     THEN IF engine = "faster_whisper"
          THEN FastTranscribeOuts \cup BrokenTranscribeOuts
          ELSE StandardTranscribeOuts
     ELSE IF engine = "faster_whisper" THEN FastDetectOuts ELSE StandardDetectOuts)

BackendOuts(kind, engine, rich) ==
    IF rich THEN AllOuts(kind, engine)
    ELSE {o \in AllOuts(kind, engine) : o \in ExampleOuts \/ o \in Raises}

(***************************************************************************)
(* dict.get(key, default) on the standard engine's result.                 *)
(***************************************************************************)
dict_get(value, default) == IF value = Missing THEN default ELSE value

(***************************************************************************)
(* max(probs, key=probs.get): the first key, in the dict's iteration       *)
(* order, whose probability no other key exceeds.                          *)
(***************************************************************************)
\* a max that takes the first key of the dict
max_key_first(probs) == probs[1][1]

max_key(probs) ==
    LET best == CHOOSE i \in 1..Len(probs) :
                    /\ \A j \in 1..Len(probs) : probs[j][2] <= probs[i][2]
                    /\ \A j \in 1..(i - 1) : probs[j][2] < probs[i][2]
    IN  probs[best][1]

probs_at(probs, key) ==
    LET i == CHOOSE j \in 1..Len(probs) : probs[j][1] = key
    IN  probs[i][2]

(***************************************************************************)
(* Responses.  status 0 with exc set is an exception that left the handler *)
(* without passing through an except clause of the handler.                *)
(***************************************************************************)
NoResp ==
    [status |-> 0, exc |-> None, media_type |-> None, body |-> <<>>,
     text |-> <<>>, language |-> None, task |-> None, detail |-> None,
     detected_language |-> None, language_probability |-> 0]

http_exception(code, detail) ==
    [NoResp EXCEPT !.status = code, !.exc = "HTTPException", !.detail = detail]

unhandled(name) == [NoResp EXCEPT !.exc = name]

(***************************************************************************)
(* str(e) of the exception caught by "except Exception as e".              *)
(***************************************************************************)
str_e(o) == o.msg

text_plain(text) ==
    [NoResp EXCEPT !.status = 200, !.media_type = "text/plain",
                   !.body = json_dumps(text)]

(***************************************************************************)
(* [segment.text for segment in segments], line 115: the indices of the    *)
(* segments the comprehension pulls, in the order it pulls them, and the   *)
(* texts it collects.                                                      *)
(***************************************************************************)
\* a handler that takes the first segment and leaves the rest
drained_first(o) == IF Len(o.segments) = 0 THEN <<>> ELSE <<1>>

drained(o) == [i \in 1..Len(o.segments) |-> i]

segments_text(o) ==
    join([k \in 1..Len(drained(o)) |-> o.segments[drained(o)[k]]])

(***************************************************************************)
(* What a handler pulls from the sequence the engine call handed it:       *)
(* transcribe iterates it (line 115), detect_language binds it to _ and    *)
(* never touches it (line 157).                                            *)
(***************************************************************************)
pulls(kind, engine, o) ==
    IF /\ kind = "asr"
       /\ engine = "faster_whisper"
       /\ (~o.raised \/ o.broke)
    THEN drained(o) ELSE <<>>

standard_language(o, language) == dict_get(o.language, language)

(***************************************************************************)
(* The try block of transcribe after get_model(), for an engine call that  *)
(* returned o; a is the request's arguments.                               *)
(***************************************************************************)
transcribe_result(engine, o, a) ==
    LET text == IF engine = "faster_whisper" THEN segments_text(o) ELSE o.text
        detected_language ==
            IF engine = "faster_whisper" THEN o.language
            ELSE standard_language(o, a.language)
    IN  IF a.output = "txt" THEN text_plain(text)
        ELSE [NoResp EXCEPT !.status = 200, !.media_type = "application/json",
                            !.text = strip(text),
                            !.language = detected_language,
                            !.task = a.task]

(***************************************************************************)
(* The try block of detect_language after get_model().                     *)
(***************************************************************************)
detect_result(engine, o) ==
    IF engine = "faster_whisper"
    THEN [NoResp EXCEPT !.status = 200, !.media_type = "application/json",
                        !.detected_language = o.language,
                        !.language_probability = o.language_probability]
    ELSE LET detected_lang == max_key(o.probs)
         IN  [NoResp EXCEPT !.status = 200, !.media_type = "application/json",
                            !.detected_language = detected_lang,
                            !.language_probability = probs_at(o.probs, detected_lang)]

(***************************************************************************)
(* The except clause of both handlers.                                     *)
(***************************************************************************)
\* an except clause that hides the message of the exception
except_clause_generic(o) == http_exception(500, "Internal Server Error")

except_clause(o) == http_exception(500, str_e(o))

handler_result(kind, engine, o, a) ==
    IF o.raised THEN except_clause(o)
    ELSE IF kind = "asr" THEN transcribe_result(engine, o, a)
    ELSE detect_result(engine, o)

(***************************************************************************)
(* The finally clause: remove the file if it is still there.               *)
(***************************************************************************)
finally_clause(fs, path) == IF path \in fs THEN fs \ {path} ELSE fs

(***************************************************************************)
(* State.                                                                  *)
(*   ASR_ENGINE, cuda_available  configuration and GPU probe of the run    *)
(*   model          the global model instance                              *)
(*   loads          model loads started and failed so far                  *)
(*   lifespan       whether the host runs the startup hook, and its end    *)
(*   loop           0 when the event loop is free, else the request whose  *)
(*                  coroutine is running on it                             *)
(*   pc, args, tmp, tmp_path, whisper_model   one handler invocation per   *)
(*                  request slot: position, arguments, the file created    *)
(*                  by NamedTemporaryFile, and the handler's locals        *)
(*   absent_at_entry  whether the model was absent when the handler began  *)
(*   did_load       whether this invocation's get_model() loaded the model *)
(*   out, resp      what the engine handed back and how the handler ended  *)
(*   pulled         the segments the handler pulled from the fast engine's *)
(*                  lazy sequence, by index, in the order of the pulls     *)
(*   files          the files that exist in the scratch directory; its     *)
(*                  names are interchangeable, a new file takes the least  *)
(*                  free one                                               *)
(*   health         the last answer of GET /                               *)
(*                                                                         *)
(* and of start_services.py, which is run from a shell, any number of      *)
(* times, against the same working directory:                              *)
(*   compose        the content of docker-compose.yml                      *)
(*   compose0       its content before the script was first run            *)
(*   judged         is_first_run of each call of                           *)
(*                  check_and_fix_docker_compose_for_searxng so far        *)
(*   at             the position of main(), "idle" when it is not running  *)
(*   argv           the parsed command line of the run                     *)
(*   log            the docker compose commands the run has issued, with   *)
(*                  how each ended                                         *)
(***************************************************************************)
VARIABLES ASR_ENGINE, cuda_available, model, loads, lifespan, loop,
          pc, args, tmp, tmp_path, whisper_model, absent_at_entry, did_load,
          out, pulled, resp, files, health,
          compose, compose0, judged, at, argv, log

vars == <<ASR_ENGINE, cuda_available, model, loads, lifespan, loop,
          pc, args, tmp, tmp_path, whisper_model, absent_at_entry, did_load,
          out, pulled, resp, files, health,
          compose, compose0, judged, at, argv, log>>

server == <<ASR_ENGINE, cuda_available, model, loads, lifespan, loop,
            pc, args, tmp, tmp_path, whisper_model, absent_at_entry, did_load,
            out, pulled, resp, files, health>>
script == <<compose, compose0, judged, at, argv, log>>

config == <<ASR_ENGINE, cuda_available>>
locals == <<args, tmp, tmp_path, whisper_model, absent_at_entry, did_load,
            out, pulled, resp>>

ASR_MODEL == "base"

NoModel ==
    [loaded |-> FALSE, id |-> 0, engine |-> None, device |-> None,
     compute_type |-> None]

NoArgs ==
    [kind |-> None, audio_file |-> None, task |-> None, language |-> None,
     output |-> None]

NoHealth ==
    [status |-> None, model |-> None, engine |-> None, cuda_available |-> FALSE]

AsrArgs(rich) ==
    [kind : {"asr"},
     audio_file : IF rich THEN {None, "noname", "upload"} ELSE {"upload"},
     task : IF rich THEN Tasks ELSE {"transcribe"},
     language : IF rich THEN Langs \cup {None} ELSE {None},
     output : IF rich THEN Outputs ELSE {"json"}]

DetectArgs(rich) ==
    [kind : {"detect"},
     audio_file : IF rich THEN {None, "noname", "upload"} ELSE {"upload"},
     task : {None}, language : {None}, output : {None}]

NoArgv == [profile |-> None, environment |-> None]

(***************************************************************************)
(* The server process right after the module was imported, and the         *)
(* working directory of a script that is not being run.                    *)
(***************************************************************************)
Imported ==
    /\ model = NoModel
    /\ loads = [started |-> 0, failed |-> 0]
    /\ loop = 0
    /\ pc = [r \in Req |-> "idle"]
    /\ args = [r \in Req |-> NoArgs]
    /\ tmp = [r \in Req |-> 0]
    /\ tmp_path = [r \in Req |-> 0]
    /\ whisper_model = [r \in Req |-> 0]
    /\ absent_at_entry = [r \in Req |-> FALSE]
    /\ did_load = [r \in Req |-> FALSE]
    /\ out = [r \in Req |-> NoOut]
    /\ pulled = [r \in Req |-> <<>>]
    /\ resp = [r \in Req |-> NoResp]
    /\ files = {}
    /\ health = NoHealth

NotRun ==
    /\ judged = <<>>
    /\ at = "idle"
    /\ argv = NoArgv
    /\ log = <<>>

Init ==
    /\ ASR_ENGINE \in Engines
    /\ cuda_available \in BOOLEAN
    /\ lifespan \in {"pending", "off"}
    /\ Imported
    /\ compose = <<>>
    /\ compose0 = compose
    /\ NotRun

(***************************************************************************)
(* get_model(): the test of line 36, the device and compute type of lines  *)
(* 37 and 42, and the handle the constructor returns.                      *)
(***************************************************************************)
\* a get_model that loads on every call
need_load_always == TRUE

\* a get_model that gives up for good after a failed load
need_load_once == ~model.loaded /\ loads.failed = 0

need_load == ~model.loaded

device == IF cuda_available THEN "cuda" ELSE "cpu"

\* a compute type that ignores the device
compute_type_float16 == "float16"

compute_type == IF device = "cuda" THEN "float16" ELSE "int8"

load_model(id) ==
    [loaded |-> TRUE, id |-> id, engine |-> ASR_ENGINE, device |-> device,
     compute_type |-> IF ASR_ENGINE = "faster_whisper" THEN compute_type ELSE None]

(***************************************************************************)
(* The host serves requests once the startup hook has returned, or at once *)
(* when it delivers no lifespan events; a failed startup ends the process. *)
(***************************************************************************)
Serving == lifespan \in {"done", "off"}

\* a startup hook that returns without calling get_model()
startup_event_no_preload ==
    /\ lifespan = "pending"
    /\ loop = 0
    /\ lifespan' = "done"
    /\ UNCHANGED <<script, config, model, loads, loop, pc, locals, files, health>>

(***************************************************************************)
(* startup_event(): get_model() before any request is served.              *)
(***************************************************************************)
startup_event ==
    /\ lifespan = "pending"
    /\ loop = 0
    /\ IF need_load
       THEN /\ \/ /\ model' = load_model(loads.started + 1)
                  /\ loads' = [loads EXCEPT !.started = @ + 1]
                  /\ lifespan' = "done"
               \/ /\ loads.failed < MaxLoadFailures
                  /\ model' = model
                  /\ loads' = [started |-> loads.started + 1, failed |-> loads.failed + 1]
                  /\ lifespan' = "failed"
       ELSE /\ lifespan' = "done"
            /\ UNCHANGED <<model, loads>>
    /\ UNCHANGED <<script, config, loop, pc, locals, files, health>>

\* a health check that fetches the model
root_touching_model ==
    /\ Serving
    /\ loop = 0
    /\ health' = [status |-> "healthy", model |-> ASR_MODEL,
                  engine |-> ASR_ENGINE, cuda_available |-> cuda_available]
    /\ IF need_load
       THEN /\ model' = load_model(loads.started + 1)
            /\ loads' = [loads EXCEPT !.started = @ + 1]
       ELSE UNCHANGED <<model, loads>>
    /\ UNCHANGED <<script, config, lifespan, loop, pc, locals, files>>

(***************************************************************************)
(* root(): GET /.                                                          *)
(***************************************************************************)
root ==
    /\ Serving
    /\ loop = 0
    /\ health' = [status |-> "healthy", model |-> ASR_MODEL,
                  engine |-> ASR_ENGINE, cuda_available |-> cuda_available]
    /\ UNCHANGED <<script, config, model, loads, lifespan, loop, pc, locals, files>>

(***************************************************************************)
(* The handler ends: its outcome is rs and the files are fs.  The host     *)
(* sends the outcome before the loop runs anything else.                   *)
(***************************************************************************)
Return(r, rs, fs) ==
    /\ resp' = [resp EXCEPT ![r] = rs]
    /\ files' = fs
    /\ pc' = [pc EXCEPT ![r] = "done"]
    /\ loop' = r

(***************************************************************************)
(* A temporary file whose name does not depend on what already exists.     *)
(***************************************************************************)
create_tmp_fixed_name(r, a) ==
    /\ Paths \ files # {}
    /\ LET p == 1 IN
        /\ files' = files \cup {p}
        /\ tmp' = [tmp EXCEPT ![r] = p]
        /\ args' = [args EXCEPT ![r] = a]
        /\ absent_at_entry' = [absent_at_entry EXCEPT ![r] = ~model.loaded]
        /\ pc' = [pc EXCEPT ![r] = "reading"]
        /\ UNCHANGED <<script, config, model, loads, lifespan, loop, tmp_path,
                       whisper_model, did_load, out, pulled, resp, health>>

(***************************************************************************)
(* NamedTemporaryFile(delete=False, ...): a file under a name no file of   *)
(* the directory has; then the coroutine awaits the upload's bytes.        *)
(***************************************************************************)
create_tmp(r, a) ==
    /\ Paths \ files # {}
    /\ LET p == CHOOSE q \in Paths \ files : \A q2 \in Paths \ files : q <= q2 IN
        /\ files' = files \cup {p}
        /\ tmp' = [tmp EXCEPT ![r] = p]
        /\ args' = [args EXCEPT ![r] = a]
        /\ absent_at_entry' = [absent_at_entry EXCEPT ![r] = ~model.loaded]
        /\ pc' = [pc EXCEPT ![r] = "reading"]
        /\ UNCHANGED <<script, config, model, loads, lifespan, loop, tmp_path,
                       whisper_model, did_load, out, pulled, resp, health>>

fail_at_entry(r, a, rs) ==
    /\ args' = [args EXCEPT ![r] = a]
    /\ absent_at_entry' = [absent_at_entry EXCEPT ![r] = ~model.loaded]
    /\ Return(r, rs, files)
    /\ UNCHANGED <<script, config, model, loads, lifespan, tmp, tmp_path,
                   whisper_model, did_load, out, pulled, health>>

(***************************************************************************)
(* transcribe(), lines 96-101: the test for a missing file, the suffix of  *)
(* the file name, the temporary file, up to the await.                     *)
(***************************************************************************)
transcribe_enter(r, rich) ==
    /\ Serving
    /\ loop = 0
    /\ pc[r] = "idle"
    /\ \E a \in AsrArgs(rich) :
          IF a.audio_file = None
          THEN fail_at_entry(r, a, http_exception(400, "No audio file provided"))
          ELSE IF a.audio_file = "noname"
          THEN fail_at_entry(r, a, unhandled("TypeError"))
          ELSE create_tmp(r, a)

(***************************************************************************)
(* detect_language(), lines 148-149: no test for a missing file.           *)
(***************************************************************************)
detect_language_enter(r, rich) ==
    /\ Serving
    /\ loop = 0
    /\ pc[r] = "idle"
    /\ \E a \in DetectArgs(rich) :
          IF a.audio_file = None
          THEN fail_at_entry(r, a, unhandled("AttributeError"))
          ELSE IF a.audio_file = "noname"
          THEN fail_at_entry(r, a, unhandled("TypeError"))
          ELSE create_tmp(r, a)

(***************************************************************************)
(* The coroutine resumes from the await: the read returned or raised, the  *)
(* write to the file succeeded or raised.  On success tmp_path is set and  *)
(* the try block is entered; the coroutine keeps the loop from here on.    *)
(***************************************************************************)
materialise(r) ==
    /\ loop = 0
    /\ pc[r] = "reading"
    /\ \/ /\ tmp_path' = [tmp_path EXCEPT ![r] = tmp[r]]
          /\ pc' = [pc EXCEPT ![r] = "get_model"]
          /\ loop' = r
          /\ UNCHANGED <<resp, files>>
       \/ /\ Return(r, unhandled("OSError"), files)
          /\ UNCHANGED tmp_path
    /\ UNCHANGED <<script, config, model, loads, lifespan, args, tmp, whisper_model,
                   absent_at_entry, did_load, out, pulled, health>>

(***************************************************************************)
(* get_model() called by a handler: line 36, then either the return of     *)
(* line 54 followed by the engine call, or the start of the load.          *)
(***************************************************************************)
get_model(r) ==
    /\ loop = r
    /\ pc[r] = "get_model"
    /\ IF need_load
       THEN /\ loads' = [loads EXCEPT !.started = @ + 1]
            /\ pc' = [pc EXCEPT ![r] = "load"]
            /\ UNCHANGED whisper_model
       ELSE /\ whisper_model' = [whisper_model EXCEPT ![r] = model.id]
            /\ pc' = [pc EXCEPT ![r] = "infer"]
            /\ UNCHANGED loads
    /\ UNCHANGED <<script, config, model, lifespan, loop, args, tmp, tmp_path,
                   absent_at_entry, did_load, out, pulled, resp, files, health>>

(***************************************************************************)
(* A handler that answers a failed load by calling get_model() again.      *)
(***************************************************************************)
load_finish_retry(r) ==
    /\ loop = r
    /\ pc[r] = "load"
    /\ \/ /\ model' = load_model(loads.started)
          /\ whisper_model' = [whisper_model EXCEPT ![r] = model'.id]
          /\ pc' = [pc EXCEPT ![r] = "infer"]
          /\ did_load' = [did_load EXCEPT ![r] = TRUE]
          /\ UNCHANGED loads
       \/ /\ loads.failed < MaxLoadFailures
          /\ loads' = [loads EXCEPT !.failed = @ + 1]
          /\ pc' = [pc EXCEPT ![r] = "get_model"]
          /\ UNCHANGED <<model, whisper_model, did_load>>
    /\ UNCHANGED <<script, config, lifespan, loop, args, tmp, tmp_path,
                   absent_at_entry, out, pulled, resp, files, health>>

(***************************************************************************)
(* The load of lines 43 or 51 ends: the handle is assigned to the global   *)
(* and returned, or the constructor raised, which the handler's except and *)
(* finally clauses turn into a 500 and the removal of the file.            *)
(***************************************************************************)
load_finish(r) ==
    /\ loop = r
    /\ pc[r] = "load"
    /\ \/ /\ model' = load_model(loads.started)
          /\ whisper_model' = [whisper_model EXCEPT ![r] = model'.id]
          /\ pc' = [pc EXCEPT ![r] = "infer"]
          /\ did_load' = [did_load EXCEPT ![r] = TRUE]
          /\ UNCHANGED <<loads, loop, out, resp, files>>
       \/ /\ loads.failed < MaxLoadFailures
          /\ \E e \in {x \in Raises : x.msg = "boom"} :
                /\ out' = [out EXCEPT ![r] = e]
                /\ Return(r, except_clause(e), finally_clause(files, tmp_path[r]))
          /\ loads' = [loads EXCEPT !.failed = @ + 1]
          /\ UNCHANGED <<model, whisper_model, did_load>>
    /\ UNCHANGED <<script, config, lifespan, args, tmp, tmp_path, absent_at_entry,
                   pulled, health>>

(***************************************************************************)
(* The engine call ends: the rest of the try block, or the except clause,  *)
(* and the finally clause.                                                 *)
(***************************************************************************)
inference_finish(r, rich) ==
    /\ loop = r
    /\ pc[r] = "infer"
    /\ \E o \in BackendOuts(args[r].kind, ASR_ENGINE, rich) :
          /\ out' = [out EXCEPT ![r] = o]
          /\ pulled' = [pulled EXCEPT ![r] = pulls(args[r].kind, ASR_ENGINE, o)]
          /\ Return(r, handler_result(args[r].kind, ASR_ENGINE, o, args[r]),
                    finally_clause(files, tmp_path[r]))
    /\ UNCHANGED <<script, config, model, loads, lifespan, args, tmp, tmp_path,
                   whisper_model, absent_at_entry, did_load, health>>

(***************************************************************************)
(* The host sends the outcome and the invocation is over.                  *)
(***************************************************************************)
deliver(r) ==
    /\ loop = r
    /\ pc[r] = "done"
    /\ loop' = 0
    /\ pc' = [pc EXCEPT ![r] = "idle"]
    /\ args' = [args EXCEPT ![r] = NoArgs]
    /\ tmp' = [tmp EXCEPT ![r] = 0]
    /\ tmp_path' = [tmp_path EXCEPT ![r] = 0]
    /\ whisper_model' = [whisper_model EXCEPT ![r] = 0]
    /\ absent_at_entry' = [absent_at_entry EXCEPT ![r] = FALSE]
    /\ did_load' = [did_load EXCEPT ![r] = FALSE]
    /\ out' = [out EXCEPT ![r] = NoOut]
    /\ pulled' = [pulled EXCEPT ![r] = <<>>]
    /\ resp' = [resp EXCEPT ![r] = NoResp]
    /\ UNCHANGED <<script, config, model, loads, lifespan, files, health>>

Next ==
    \/ startup_event
    \/ root
    \/ \E r \in Req : transcribe_enter(r, FALSE)
    \/ \E r \in Req : detect_language_enter(r, FALSE)
    \/ \E r \in Req : materialise(r)
    \/ \E r \in Req : get_model(r)
    \/ \E r \in Req : load_finish(r)
    \/ \E r \in Req : inference_finish(r, FALSE)
    \/ \E r \in Req : deliver(r)

Spec == Init /\ [][Next]_vars

(***************************************************************************)
(* One request at a time, over every argument and every returned value.    *)
(***************************************************************************)
NextData ==
    \/ startup_event
    \/ transcribe_enter(1, TRUE)
    \/ detect_language_enter(1, TRUE)
    \/ materialise(1)
    \/ get_model(1)
    \/ load_finish(1)
    \/ inference_finish(1, TRUE)
    \/ deliver(1)

SpecData == Init /\ [][NextData]_vars

TypeOK ==
    /\ ASR_ENGINE \in Engines
    /\ cuda_available \in BOOLEAN
    /\ model.loaded \in BOOLEAN
    /\ loop \in {0} \cup Req
    /\ \A r \in Req : pc[r] \in {"idle", "reading", "get_model", "load", "infer", "done"}
    /\ files \subseteq Paths

(***************************************************************************)
(* start_services.py.  The text of docker-compose.yml is a sequence of     *)
(* pieces: the directive, the two pieces the script wraps around it, and   *)
(* any other text.  No piece is a substring of a run of the others, so     *)
(* "in" and str.replace on the text are the same on the pieces.            *)
(***************************************************************************)
CapDrop == "cap_drop: - ALL"
Hash == "# "
Note == "  # Temporarily commented out for first run"
Other == "services:"
Pieces == {Hash, CapDrop, Note, Other}

Contents == SeqsUpTo(Pieces, MaxCompose)

cap_drop == <<CapDrop>>
commented_out == <<Hash, CapDrop, Note>>

(***************************************************************************)
(* sub in s, and s.replace(old, new): every occurrence of old, leftmost    *)
(* first, without overlaps.                                                *)
(***************************************************************************)
contains(s, sub) ==
    \E i \in 1..(Len(s) - Len(sub) + 1) : SubSeq(s, i, i + Len(sub) - 1) = sub

RECURSIVE replace(_, _, _)
replace(s, old, new) ==
    IF Len(s) < Len(old) THEN s
    ELSE IF SubSeq(s, 1, Len(old)) = old
    THEN new \o replace(SubSeq(s, Len(old) + 1, Len(s)), old, new)
    ELSE <<Head(s)>> \o replace(Tail(s), old, new)

(***************************************************************************)
(* Lines 254-271: what check_and_fix_docker_compose_for_searxng leaves in  *)
(* the file, given what it read and what it made of the container.         *)
(***************************************************************************)
modified_content(content, is_first_run) ==
    IF is_first_run /\ contains(content, cap_drop)
    THEN replace(content, cap_drop, commented_out)
    ELSE IF ~is_first_run /\ contains(content, commented_out)
    THEN replace(content, commented_out, cap_drop)
    ELSE content

(***************************************************************************)
(* check_and_fix_docker_compose_for_searxng(): is_first_run is True unless *)
(* a running searxng container holds uwsgi.ini, which the script learns    *)
(* from docker and which any run may find either way.                      *)
(***************************************************************************)
check_and_fix_docker_compose_for_searxng ==
    /\ Len(judged) < MaxRuns
    /\ \E is_first_run \in BOOLEAN :
          /\ compose' = modified_content(compose, is_first_run)
          /\ judged' = Append(judged, is_first_run)
    /\ UNCHANGED compose0

(***************************************************************************)
(* The function called on its own, over every content of the file.         *)
(***************************************************************************)
call_check_and_fix ==
    /\ at = "idle"
    /\ check_and_fix_docker_compose_for_searxng
    /\ UNCHANGED <<at, argv, log, server>>

InitFix ==
    /\ ASR_ENGINE = "faster_whisper"
    /\ cuda_available = FALSE
    /\ lifespan = "off"
    /\ Imported
    /\ compose \in Contents
    /\ compose0 = compose
    /\ NotRun

NextFix == call_check_and_fix

SpecFix == InitFix /\ [][NextFix]_vars

(***************************************************************************)
(* main().  run_command() ends in one of three ways: the command exited    *)
(* with 0, it exited with something else (check=True raises                *)
(* CalledProcessError), or it could not be started (subprocess.run raises  *)
(* an OSError such as FileNotFoundError).                                  *)
(***************************************************************************)
Profiles == {"cpu", "gpu-nvidia", "gpu-amd", "none"}
Environments == {"private", "public"}
Ends == {"ok", "CalledProcessError", "OSError"}

profiles_to_clean == <<"cpu", "gpu-nvidia", "gpu-amd">>

compose_files(environment) ==
    <<"docker-compose.yml">>
    \o (IF environment = "private"
        THEN <<"docker-compose.override.private.yml">> ELSE <<>>)
    \o (IF environment = "public"
        THEN <<"docker-compose.override.public.yml",
               "docker-compose.override.public.supabase.yml">> ELSE <<>>)

down_cmd(i, environment) ==
    [verb |-> "down",
     profile |-> IF i <= Len(profiles_to_clean) THEN profiles_to_clean[i] ELSE None,
     files |-> compose_files(environment)]

up_cmd(profile, environment) ==
    [verb |-> "up",
     profile |-> IF profile # "none" THEN profile ELSE None,
     files |-> compose_files(environment)]

run_command(cmd, end) ==
    Append(log, [verb |-> cmd.verb, profile |-> cmd.profile,
                 files |-> cmd.files, end |-> end])

main ==
    /\ at \in {"idle", "end", "aborted"}
    /\ Len(judged) < MaxRuns
    /\ argv' \in [profile : Profiles, environment : Environments]
    /\ log' = <<>>
    /\ at' = "clone"
    /\ UNCHANGED <<compose, compose0, judged, server>>

(***************************************************************************)
(* git clone or git pull; a failing git command is not caught.             *)
(***************************************************************************)
clone_supabase_repo ==
    /\ at = "clone"
    /\ at' \in {"env", "aborted"}
    /\ UNCHANGED <<compose, compose0, judged, argv, log, server>>

(***************************************************************************)
(* shutil.copyfile of .env; a missing .env is not caught.                  *)
(***************************************************************************)
prepare_supabase_env ==
    /\ at = "env"
    /\ at' \in {"secret", "aborted"}
    /\ UNCHANGED <<compose, compose0, judged, argv, log, server>>

(***************************************************************************)
(* Every failure in generate_searxng_secret_key() is caught and printed.   *)
(***************************************************************************)
generate_searxng_secret_key ==
    /\ at = "secret"
    /\ at' = "fix"
    /\ UNCHANGED <<compose, compose0, judged, argv, log, server>>

main_check_and_fix ==
    /\ at = "fix"
    /\ check_and_fix_docker_compose_for_searxng
    /\ at' = "down"
    /\ UNCHANGED <<argv, log, server>>

(***************************************************************************)
(* stop_existing_containers(), one command per step: the try around each   *)
(* run_command catches CalledProcessError and nothing else.                *)
(***************************************************************************)
\* a teardown without the try around run_command
after_down_unguarded(i, end) ==
    IF end # "ok" THEN "aborted"
    ELSE IF i <= Len(profiles_to_clean) THEN "down" ELSE "up"

after_down(i, end) ==
    IF end = "OSError" THEN "aborted"
    ELSE IF i <= Len(profiles_to_clean) THEN "down" ELSE "up"

stop_existing_containers ==
    /\ at = "down"
    /\ LET i == Len(log) + 1 IN
        \E end \in Ends :
            /\ log' = run_command(down_cmd(i, argv.environment), end)
            /\ at' = after_down(i, end)
    /\ UNCHANGED <<compose, compose0, judged, argv, server>>

(***************************************************************************)
(* start_services(): a non-zero exit of "up" is caught, and so is whatever *)
(* the attempt to start n8n by hand raises; main() then prints and ends.   *)
(***************************************************************************)
start_services ==
    /\ at = "up"
    /\ \E end \in Ends :
          /\ log' = run_command(up_cmd(argv.profile, argv.environment), end)
          /\ at' = IF end = "OSError" THEN "aborted" ELSE "end"
    /\ UNCHANGED <<compose, compose0, judged, argv, server>>

InitMain ==
    /\ ASR_ENGINE = "faster_whisper"
    /\ cuda_available = FALSE
    /\ lifespan = "off"
    /\ Imported
    /\ compose = <<Other, CapDrop, Other>>
    /\ compose0 = compose
    /\ NotRun

NextMain ==
    \/ main
    \/ clone_supabase_repo
    \/ prepare_supabase_env
    \/ generate_searxng_secret_key
    \/ main_check_and_fix
    \/ stop_existing_containers
    \/ start_services

SpecMain == InitMain /\ [][NextMain]_vars

(***************************************************************************)
(* Definitions the properties are stated with, written from the wording of *)
(* the properties and not from the handlers.                               *)
(***************************************************************************)
Entered(r) == pc[r] # "done" /\ pc'[r] = "done"

Succeeded(r) == pc[r] = "done" /\ resp[r].status = 200

\* the characters of s from its first to its last non-whitespace character
Trimmed(s) ==
    LET solid == {i \in 1..Len(s) : s[i] \notin Whitespace}
    IN  IF solid = {} THEN <<>>
        ELSE LET first == CHOOSE i \in solid : \A j \in solid : i <= j
                 last == CHOOSE i \in solid : \A j \in solid : j <= i
             IN  SubSeq(s, first, last)

\* the texts of segs in order, a single space after each one but the last
RECURSIVE Spaced(_)
Spaced(segs) ==
    IF Len(segs) = 0 THEN <<>>
    ELSE LET front == SubSeq(segs, 1, Len(segs) - 1)
         IN  (IF Len(front) = 0 THEN <<>> ELSE Spaced(front) \o <<" ">>)
             \o segs[Len(segs)]

\* the text the engine produced for request r
EngineText(r) ==
    IF ASR_ENGINE = "faster_whisper" THEN Spaced(out[r].segments) ELSE out[r].text

(***************************************************************************)
(* C1: on every exit path of the /asr and /detect-language handlers, the   *)
(* temporary file created for the request no longer exists when the        *)
(* handler has returned or raised.                                         *)
(***************************************************************************)
C1_TempFileGoneAtExit ==
    [][\A r \in Req : (Entered(r) /\ tmp'[r] # 0) => tmp'[r] \notin files']_vars

(***************************************************************************)
(* C2: for requests in flight together while the model is absent, the      *)
(* model is loaded once: at no time has more than one load succeeded or    *)
(* begun without failing, and every caller that get_model() returned to    *)
(* holds the one loaded handle.                                            *)
(***************************************************************************)
C2_SingleLoad ==
    /\ loads.started - loads.failed <= 1
    /\ Cardinality({r \in Req : pc[r] = "load"}) <= 1
    /\ \A r \in Req : whisper_model[r] # 0 =>
          model.loaded /\ whisper_model[r] = model.id

\* a request that began while the model was absent, did not load it itself
\* (nor did the startup hook) and was handed the handle of the only load
C2_Witness ==
    \E r \in Req :
        /\ pc[r] = "done"
        /\ lifespan = "off"
        /\ absent_at_entry[r] /\ ~did_load[r]
        /\ model.loaded /\ whisper_model[r] = model.id
        /\ loads.started = 1

(***************************************************************************)
(* C3: a /asr request with output "txt" that succeeds answers with the     *)
(* trimmed text of the engine and nothing around it, as text/plain.        *)
(***************************************************************************)
C3_PlainTextIsTrimmedText ==
    \A r \in Req :
        (Succeeded(r) /\ args[r].kind = "asr" /\ args[r].output = "txt") =>
            /\ resp[r].media_type = "text/plain"
            /\ resp[r].body = Trimmed(EngineText(r))

(***************************************************************************)
(* C4: on the standard engine the structured result of /asr carries the    *)
(* trimmed whole text, and the language of the engine's result when that   *)
(* field has a value, else the language the caller asked for.              *)
(***************************************************************************)
C4_StandardResult ==
    \A r \in Req :
        (/\ Succeeded(r) /\ args[r].kind = "asr" /\ args[r].output = "json"
         /\ ASR_ENGINE = "openai_whisper") =>
            /\ resp[r].text = Trimmed(out[r].text)
            /\ resp[r].language =
                  IF out[r].language \in {Missing, None}
                  THEN args[r].language ELSE out[r].language

(***************************************************************************)
(* C5: on the fast engine the structured result of /asr carries the texts  *)
(* of the segments in order, one space between neighbours, trimmed; the    *)
(* language of the metadata record; and the task of the request.           *)
(***************************************************************************)
C5_FastResult ==
    \A r \in Req :
        (/\ Succeeded(r) /\ args[r].kind = "asr" /\ args[r].output = "json"
         /\ ASR_ENGINE = "faster_whisper") =>
            /\ resp[r].text = Trimmed(Spaced(out[r].segments))
            /\ resp[r].language = out[r].language
            /\ resp[r].task = args[r].task

C5_Witness ==
    \E r \in Req :
        /\ Succeeded(r) /\ args[r].kind = "asr" /\ args[r].output = "json"
        /\ ASR_ENGINE = "faster_whisper"
        /\ Len(out[r].segments) = 2
        /\ resp[r].text # <<>>
        /\ Len(resp[r].text) < Len(out[r].segments[1]) + 1 + Len(out[r].segments[2])
        /\ args[r].task = "translate"

(***************************************************************************)
(* C6: when the engine raises during the inference call of a request, the  *)
(* request ends with HTTP 500 whose detail is the engine's message.        *)
(***************************************************************************)
C6_InferenceErrorSurfaces ==
    \A r \in Req :
        (pc[r] = "done" /\ whisper_model[r] # 0 /\ out[r].raised) =>
            /\ resp[r].status = 500
            /\ resp[r].exc = "HTTPException"
            /\ resp[r].detail = out[r].msg

C6_Witness ==
    \E r \in Req :
        /\ pc[r] = "done"
        /\ args[r].kind = "detect"
        /\ whisper_model[r] # 0
        /\ out[r].raised
        /\ resp[r].status = 500 /\ resp[r].detail = "no audio"
        /\ tmp[r] \notin files

(***************************************************************************)
(* C7: a model load that fails leaves the model absent and ends the call   *)
(* with the failure, without another load in that call; a later call that  *)
(* finds the model absent starts a load of its own.                        *)
(***************************************************************************)
C7_FailedLoad ==
    [][/\ \A r \in Req :
            (pc[r] = "load" /\ pc'[r] = "done") =>
                /\ ~model'.loaded
                /\ loads'.started = loads.started
                /\ whisper_model'[r] = 0
                /\ resp'[r].status = 500 /\ resp'[r].detail = out'[r].msg
       /\ (lifespan = "pending" /\ lifespan' = "failed") =>
                ~model'.loaded /\ loads'.started = loads.started + 1
       /\ \A r \in Req :
            (pc[r] = "get_model" /\ pc'[r] # "get_model" /\ ~model.loaded) =>
                pc'[r] = "load" /\ loads'.started = loads.started + 1]_vars

C7_Witness ==
    /\ loads.failed >= 1
    /\ \E r \in Req : pc[r] = "load" /\ loads.started = loads.failed + 1

(***************************************************************************)
(* C8: once the model is loaded it stays the same handle, no load is       *)
(* started again, and get_model() returns that handle.                     *)
(***************************************************************************)
C8_LoadedForGood ==
    [][model.loaded =>
          /\ model' = model
          /\ loads' = loads
          /\ \A r \in Req :
                (pc[r] = "get_model" /\ pc'[r] # "get_model") =>
                    whisper_model'[r] = model.id /\ pc'[r] = "infer"]_vars

C8_Witness ==
    \E r \in Req :
        /\ model.loaded /\ ~absent_at_entry[r]
        /\ pc[r] = "done" /\ whisper_model[r] = model.id

(***************************************************************************)
(* C9: while a request is inside the engine's inference call, the event    *)
(* loop can run something else: GET / can answer.                          *)
(***************************************************************************)
C9_LoopFreeDuringInference ==
    \A r \in Req : pc[r] = "infer" => ENABLED root

(***************************************************************************)
(* C10: GET / reports status, model identifier, engine kind and GPU        *)
(* availability, leaves the model and the count of loads as they are, and  *)
(* can answer with the model absent as well as loaded.                     *)
(***************************************************************************)
C10_RootLeavesModel ==
    /\ [](health # NoHealth =>
            /\ health.status = "healthy"
            /\ health.model = ASR_MODEL
            /\ health.engine = ASR_ENGINE
            /\ health.cuda_available = cuda_available)
    /\ [][health' # health => (model' = model /\ loads' = loads /\ pc' = pc)]_vars
    /\ []((Serving /\ loop = 0) => ENABLED root)

C10_Witness ==
    /\ health.status = "healthy"
    /\ ~model.loaded
    /\ loads.started = 0

(***************************************************************************)
(* C11: a request without an audio payload, on /asr and on                 *)
(* /detect-language, ends with HTTP 400 before a temporary file is created *)
(* and before the engine is acquired or invoked.                           *)
(***************************************************************************)
C11_MissingAudioRejected ==
    \A r \in Req :
        (pc[r] = "done" /\ args[r].audio_file = None) =>
            /\ resp[r].status = 400
            /\ tmp[r] = 0
            /\ whisper_model[r] = 0
            /\ out[r] = NoOut

(***************************************************************************)
(* C12: on the standard engine /detect-language answers with a language    *)
(* whose probability no other language of the distribution exceeds, and    *)
(* with that language's probability.                                       *)
(***************************************************************************)
C12_MostProbableLanguage ==
    \A r \in Req :
        (/\ Succeeded(r) /\ args[r].kind = "detect"
         /\ ASR_ENGINE = "openai_whisper") =>
            \E i \in 1..Len(out[r].probs) :
                /\ out[r].probs[i][1] = resp[r].detected_language
                /\ out[r].probs[i][2] = resp[r].language_probability
                /\ \A j \in 1..Len(out[r].probs) :
                      out[r].probs[j][2] <= out[r].probs[i][2]

\* the more probable language is the second one of the distribution
C12_Witness ==
    \E r \in Req :
        /\ Succeeded(r) /\ args[r].kind = "detect"
        /\ ASR_ENGINE = "openai_whisper"
        /\ Len(out[r].probs) = 2
        /\ out[r].probs[1][2] < out[r].probs[2][2]
        /\ resp[r].detected_language = out[r].probs[2][1]
        /\ resp[r].language_probability = out[r].probs[2][2]

(***************************************************************************)
(* C13.  Within one /asr or /detect-language request nothing is retried:   *)
(* the position of a handler only moves forward through reading,           *)
(* get_model, load, infer and done, so that the load is started at most    *)
(* once (the only step into "load" comes from "get_model" and counts one   *)
(* started load) and the engine is called at most once (the only step out  *)
(* of "infer" ends the handler); and the step in which the load or the     *)
(* engine call raises ends the handler with a 500.                         *)
(***************************************************************************)
Forward ==
    {<<"idle", "reading">>, <<"idle", "done">>, <<"reading", "get_model">>,
     <<"reading", "done">>, <<"get_model", "load">>, <<"get_model", "infer">>,
     <<"load", "infer">>, <<"load", "done">>, <<"infer", "done">>,
     <<"done", "idle">>}

C13_NoRetry ==
    [][\A r \in Req :
          /\ pc'[r] # pc[r] => <<pc[r], pc'[r]>> \in Forward
          /\ (pc[r] # "load" /\ pc'[r] = "load") =>
                 loads'.started = loads.started + 1
          /\ (pc[r] = "load" /\ pc'[r] = "load") => loads' = loads
          /\ (pc[r] \in {"load", "infer"} /\ loads'.failed # loads.failed) =>
                 pc'[r] = "done" /\ resp'[r].status = 500
          /\ (pc[r] = "infer" /\ pc'[r] = "done" /\ out'[r].raised) =>
                 resp'[r].status = 500]_vars

C13_Witness ==
    \E r \in Req :
        /\ pc[r] = "done"
        /\ out[r].raised
        /\ resp[r].status = 500
        /\ whisper_model[r] = 0
        /\ loads.started = 1
        /\ loads.failed = 1

(***************************************************************************)
(* C14.  Whatever the interleaving, the handlers that are between the      *)
(* creation of their temporary file and their exit hold pairwise distinct  *)
(* paths, each of them an existing file; and a step removes at most the    *)
(* file of the handler that exits in that step, never the file of a        *)
(* handler that is still in flight.                                        *)
(***************************************************************************)
InFlight(r) == pc[r] \in {"reading", "get_model", "load", "infer"}

C14_DistinctPaths ==
    /\ \A r \in Req : InFlight(r) => tmp[r] \in files
    /\ \A r1, r2 \in Req :
          (r1 # r2 /\ InFlight(r1) /\ InFlight(r2)) => tmp[r1] # tmp[r2]

C14_OwnFileOnly ==
    [][\A p \in files \ files' :
          /\ \E r \in Req : Entered(r) /\ tmp[r] = p
          /\ \A r \in Req : (pc'[r] # "done" /\ InFlight(r)) => tmp[r] # p]_vars

C14_Exclusive == []C14_DistinctPaths /\ C14_OwnFileOnly

C14_Witness ==
    \E r1, r2 \in Req :
        /\ pc[r1] = "reading"
        /\ tmp[r1] \in files
        /\ pc[r2] = "done"
        /\ resp[r2].status = 200
        /\ tmp[r2] \notin files
        /\ tmp[r2] # tmp[r1]


(***************************************************************************)
(* C15, as stated.  Every request that invoked the fast engine's           *)
(* transcription and got the lazy sequence back has pulled every segment   *)
(* of it, once and in order, by the time it exits.                         *)
(***************************************************************************)
GotSequence(r) ==
    /\ pc[r] = "done"
    /\ ASR_ENGINE = "faster_whisper"
    /\ whisper_model[r] # 0
    /\ (~out[r].raised \/ out[r].broke)

InOrderOnce(r) == pulled[r] = [i \in 1..Len(out[r].segments) |-> i]

C15_EveryFastRequestDrains ==
    \A r \in Req : GotSequence(r) => InOrderOnce(r)

(***************************************************************************)
(* C15, amended.  An /asr request whose fast-engine transcription call     *)
(* returned pulls the segments one at a time, in order and each once,      *)
(* until the sequence ends (the request then succeeds) or a pull raises    *)
(* (the request then ends with a 500); every pull happens in the try       *)
(* block, while the request's temporary file exists.  A /detect-language   *)
(* request on the fast engine invokes the transcription too and pulls      *)
(* nothing from the sequence.                                              *)
(***************************************************************************)
C15_Drained ==
    \A r \in Req :
        GotSequence(r) =>
            IF args[r].kind = "asr"
            THEN /\ InOrderOnce(r)
                 /\ resp[r].status = IF out[r].broke THEN 500 ELSE 200
                 /\ tmp_path[r] \notin files
            ELSE pulled[r] = <<>>

C15_PulledBeforeRemoval ==
    [][\A r \in Req :
          pulled'[r] # pulled[r] /\ pulled'[r] # <<>> =>
              /\ pc[r] = "infer"
              /\ tmp_path[r] \in files
              /\ Entered(r)]_vars

C15_AsrDrains == []C15_Drained /\ C15_PulledBeforeRemoval

C15_Witness ==
    /\ GotSequence(1)
    /\ args[1].kind = "asr"
    /\ ~out[1].raised
    /\ Len(out[1].segments) = 2
    /\ pulled[1] = <<1, 2>>
    /\ resp[1].status = 200
    /\ tmp_path[1] \notin files


(***************************************************************************)
(* C16.  The loaded model sits on the GPU exactly when the probe reported  *)
(* one and on the CPU otherwise; on the fast engine its compute type is    *)
(* float16 exactly on the GPU and int8 exactly on the CPU; on the standard *)
(* engine no compute type was chosen.  The placement is set in the step    *)
(* that loads the model.                                                   *)
(***************************************************************************)
C16_Placement ==
    model.loaded =>
        /\ model.engine = ASR_ENGINE
        /\ (model.device = "cuda") <=> cuda_available
        /\ (model.device = "cpu") <=> ~cuda_available
        /\ IF ASR_ENGINE = "faster_whisper"
           THEN /\ (model.compute_type = "float16") <=> (model.device = "cuda")
                /\ (model.compute_type = "int8") <=> (model.device = "cpu")
           ELSE model.compute_type = None

C16_Witness ==
    /\ model.loaded
    /\ loads.started = 1
    /\ ASR_ENGINE = "faster_whisper"
    /\ ~cuda_available
    /\ model.device = "cpu"
    /\ model.compute_type = "int8"


(***************************************************************************)
(* C17.  No request is served before the startup hook has returned; the    *)
(* hook calls get_model(), which starts one load; when the hook returned   *)
(* normally the model is loaded from then on, every handler finds it       *)
(* loaded at its entry and no handler ever loads it; when the load of the  *)
(* hook failed the hook failed with it, the model is absent and nothing is *)
(* served.                                                                 *)
(***************************************************************************)
C17_StartupState ==
    /\ lifespan = "pending" =>
          /\ ~model.loaded
          /\ \A r \in Req : pc[r] = "idle"
    /\ lifespan = "done" =>
          /\ model.loaded
          /\ loads = [started |-> 1, failed |-> 0]
          /\ \A r \in Req :
                /\ pc[r] # "load"
                /\ ~did_load[r]
                /\ pc[r] # "idle" => ~absent_at_entry[r]
    /\ lifespan = "failed" =>
          /\ ~model.loaded
          /\ \A r \in Req : pc[r] = "idle"

C17_StartupStep ==
    [][(lifespan = "pending" /\ lifespan' # "pending") =>
          /\ loads'.started = loads.started + 1
          /\ lifespan' \in {"done", "failed"}
          /\ lifespan' = "done" <=> model'.loaded
          /\ lifespan' = "failed" <=> loads'.failed = loads.failed + 1]_vars

C17_StartupPreload == []C17_StartupState /\ C17_StartupStep

C17_Witness ==
    /\ lifespan = "done"
    /\ \E r \in Req :
          /\ Succeeded(r)
          /\ ~absent_at_entry[r]
          /\ ~did_load[r]
          /\ whisper_model[r] = model.id
          /\ loads.started = 1


(***************************************************************************)
(* C18.  For a docker-compose.yml that contains "cap_drop: - ALL", after   *)
(* k >= 1 calls of check_and_fix_docker_compose_for_searxng that judged    *)
(* first run and then one call that judged not first run, the content of   *)
(* the file is the original content again.                                 *)
(***************************************************************************)
FirstRunsThenOne ==
    /\ Len(judged) >= 2
    /\ ~judged[Len(judged)]
    /\ \A i \in 1..(Len(judged) - 1) : judged[i]

C18_CommentUndone ==
    (contains(compose0, cap_drop) /\ FirstRunsThenOne) => compose = compose0

(***************************************************************************)
(* C19.  In a run of main, "up" is issued only after the four "down"       *)
(* commands were issued, in the order cpu, gpu-nvidia, gpu-amd and then    *)
(* without a profile; a "down" that exits with an error is followed by the *)
(* next "down", or by "up" after the last, and never ends the run.         *)
(***************************************************************************)
Teardown(i) ==
    /\ log[i].verb = "down"
    /\ log[i].profile = <<"cpu", "gpu-nvidia", "gpu-amd", None>>[i]

C19_DownsThenUp ==
    /\ \A i \in 1..Len(log) :
          IF i <= 4 THEN Teardown(i) ELSE i = 5 /\ log[i].verb = "up"
    /\ at = "up" => Len(log) = 4
    /\ at = "end" => Len(log) = 5
    /\ (at = "aborted" /\ Len(log) > 0) => log[Len(log)].end = "OSError"

C19_FailedDownGoesOn ==
    [][(at = "down" /\ log' # log
          /\ log'[Len(log')].end = "CalledProcessError") =>
              /\ Len(log') = Len(log) + 1
              /\ at' = IF Len(log') < 4 THEN "down" ELSE "up"]_vars

C19_TeardownBeforeUp == []C19_DownsThenUp /\ C19_FailedDownGoesOn

C19_Witness ==
    /\ at = "end"
    /\ Len(log) = 5
    /\ log[2].end = "CalledProcessError"
    /\ log[4].end = "CalledProcessError"
    /\ log[5].verb = "up"
    /\ log[5].end = "ok"

====
